---- MODULE Spec2Model ----
(***************************************************************************)
(* Model of koko-drama's shuffle_merge.py: the cross-run folder scheduler  *)
(* (main, load_state, save_state), the per-cycle parameter selectors and   *)
(* the per-folder segment assembly (process_one_folder).                   *)
(***************************************************************************)
EXTENDS Integers, Sequences, FiniteSets, TLC

(***************************************************************************)
(* Folder names.  A name is a sequence of one-character strings, so that   *)
(* natural_sort_key and str ordering are computed character by character.  *)
(***************************************************************************)
e2  == <<"e", "2">>
e02 == <<"e", "0", "2">>
e10 == <<"e", "1", "0">>

\* the folder names that may appear under ROOT_DIR
Names == {e2, e02, e10}

Digits == {"0", "1", "2"}

DigitVal(c) == CASE c = "0" -> 0 [] c = "1" -> 1 [] c = "2" -> 2 [] OTHER -> 0

\* code point of a character (str comparison compares code points)
Ord(c) ==
  CASE c = "0" -> 48 [] c = "1" -> 49 [] c = "2" -> 50
    [] c = "E" -> 69 [] c = "N" -> 78 [] c = "T" -> 84
    [] c = "e" -> 101 [] c = "n" -> 110 [] c = "o" -> 111
    [] c = "r" -> 114 [] c = "u" -> 117 [] OTHER -> 0

\* str.lower() on one character
LowerChar(c) == CASE c = "E" -> "e" [] c = "N" -> "n" [] c = "T" -> "t" [] OTHER -> c

RECURSIVE Lower(_)
Lower(s) == IF s = <<>> THEN <<>> ELSE <<LowerChar(Head(s))>> \o Lower(Tail(s))

\* Python str < str: lexicographic on code points, a proper prefix is smaller
RECURSIVE StrLess(_, _)
StrLess(a, b) ==
  IF b = <<>> THEN FALSE
  ELSE IF a = <<>> THEN TRUE
  ELSE IF Ord(Head(a)) /= Ord(Head(b)) THEN Ord(Head(a)) < Ord(Head(b))
  ELSE StrLess(Tail(a), Tail(b))

\* int(text) for a run of decimal digits
RECURSIVE IntOf(_, _)
IntOf(s, acc) == IF s = <<>> THEN acc ELSE IntOf(Tail(s), acc * 10 + DigitVal(Head(s)))

\* re.split('([0-9]+)', name): chunks alternate text, digits, text, ...;
\* the first and the last chunk are text (possibly empty)
RECURSIVE SplitDigits(_, _, _)
SplitDigits(s, cur, inDigits) ==
  IF s = <<>> THEN (IF inDigits THEN <<cur, <<>> >> ELSE <<cur>>)
  ELSE IF (Head(s) \in Digits) = inDigits
       THEN SplitDigits(Tail(s), Append(cur, Head(s)), inDigits)
       ELSE <<cur>> \o SplitDigits(Tail(s), <<Head(s)>>, ~inDigits)

\* natural_sort_key: digit chunks become integers, text chunks are lowercased
natural_sort_key(name) ==
  LET chunks == SplitDigits(name, <<>>, FALSE)
  IN  [i \in 1..Len(chunks) |->
         IF i % 2 = 0 THEN [isInt |-> TRUE,  n |-> IntOf(chunks[i], 0), s |-> <<>>]
                      ELSE [isInt |-> FALSE, n |-> 0, s |-> Lower(chunks[i])]]

\* Python list < list on two keys
RECURSIVE KeyLess(_, _)
KeyLess(a, b) ==
  IF b = <<>> THEN FALSE
  ELSE IF a = <<>> THEN TRUE
  ELSE IF Head(a) = Head(b) THEN KeyLess(Tail(a), Tail(b))
  ELSE IF Head(a).isInt THEN Head(a).n < Head(b).n
  ELSE StrLess(Head(a).s, Head(b).s)

\* insertion of x behind every element that is not greater (stable)
RECURSIVE InsertByKey(_, _)
InsertByKey(x, sorted) ==
  IF sorted = <<>> THEN <<x>>
  ELSE IF KeyLess(natural_sort_key(x), natural_sort_key(Head(sorted)))
       THEN <<x>> \o sorted
       ELSE <<Head(sorted)>> \o InsertByKey(x, Tail(sorted))

\* sorted(listing, key=natural_sort_key): stable, ties keep the listing order
RECURSIVE SortedNatural(_)
SortedNatural(listing) ==
  IF listing = <<>> THEN <<>>
  ELSE InsertByKey(listing[Len(listing)], SortedNatural(SubSeq(listing, 1, Len(listing) - 1)))

\* sorted(done_names): plain str order of a set of distinct strings
RECURSIVE SortedStr(_)
SortedStr(S) ==
  IF S = {} THEN <<>>
  ELSE LET m == CHOOSE x \in S : \A y \in S \ {x} : StrLess(x, y)
       IN  <<m>> \o SortedStr(S \ {m})

Range(s) == {s[i] : i \in 1..Len(s)}

\* the orders in which Path.iterdir() may list a set of entries (arbitrary)
Listings(S) == {p \in [1..Cardinality(S) -> S] : Range(p) = S}

Min(a, b) == IF a < b THEN a ELSE b

(***************************************************************************)
(* Cycle State Store: the content of STATE_FILE, load_state, save_state.   *)
(* A content is absent, text that is not JSON, a JSON value that is not an *)
(* object, or a JSON object whose "cycle" and "done" members are typed     *)
(* JSON values.                                                            *)
(***************************************************************************)
NoMember == [t |-> "missing", i |-> 0, l |-> <<>>]
JInt(n)  == [t |-> "int", i |-> n, l |-> <<>>]
JList(items) == [t |-> "list", i |-> 0, l |-> items]
JStr(name) == [t |-> "str", s |-> name]

Absent == [k |-> "absent", cycle |-> NoMember, done |-> NoMember]

\* str(x) of a member of the JSON list "done"
PyStr(item) ==
  CASE item.t = "str"  -> item.s
    [] item.t = "int"  -> <<"1">>
    [] item.t = "bool" -> <<"T", "r", "u", "e">>
    [] OTHER           -> <<"N", "o", "n", "e">>

\* isinstance(cycle, int): bool is a subclass of int in Python
IsInstanceInt(v) == v.t \in {"int", "bool"}

IsInstanceList(v) == v.t = "list"

\* max(1, cycle)
MaxOne(n) == IF n > 1 THEN n ELSE 1

DefaultState == [cycle |-> 1, done |-> <<>>]

load_state(content) ==
  IF content.k = "absent" THEN DefaultState
  ELSE IF content.k # "object" THEN DefaultState
  ELSE LET cycle == IF content.cycle.t = "missing" THEN JInt(1) ELSE content.cycle
           done  == IF content.done.t = "missing" THEN JList(<<>>) ELSE content.done
       IN  IF ~IsInstanceInt(cycle) \/ ~IsInstanceList(done) THEN DefaultState
           ELSE [cycle |-> MaxOne(cycle.i),
                 done  |-> [j \in 1..Len(done.l) |-> PyStr(done.l[j])]]

\* the file content save_state writes for {"cycle": cycle, "done": done}
save_state(cycle, done) ==
  [k |-> "object", cycle |-> JInt(cycle),
   done |-> JList([j \in 1..Len(done) |-> JStr(done[j])])]


(***************************************************************************)
(* Bounds                                                                  *)
(***************************************************************************)
MaxRuns == 3
MaxPick == 2
MaxStartCycle == 2
MaxEnvChanges == 2
MaxSelCycle == 8
MaxSelK == 1
MaxVoices == 2
MaxDoneLen == 2
MaxClips == 4

(***************************************************************************)
(* Configuration palettes as the source sets them (lines 39-62).  Zoom and *)
(* speed are kept in hundredths.                                           *)
(***************************************************************************)
SourceTintPalette ==
  <<"#00C2FF", "#FF4D6D", "#22C55E", "#F59E0B", "#A855F7", "#14B8A6", "#EF4444">>

SourceLooks ==
  << [name |-> "clean", filter |-> "eq=contrast=1.15:saturation=1.2:brightness=0.03"],
     [name |-> "warm",  filter |-> "colorbalance=rs=0.05:gs=0.03:bs=-0.06"],
     [name |-> "cool",  filter |-> "colorbalance=rs=-0.05:gs=-0.02:bs=0.06"],
     [name |-> "soft",  filter |-> "gblur=sigma=1.5"],
     [name |-> "crisp", filter |-> "unsharp=5:5:1.5:5:5:0.0"],
     [name |-> "matte", filter |-> "eq=contrast=0.9:saturation=0.85:gamma=1.1"],
     [name |-> "grain", filter |-> "noise=alls=8:allf=t"] >>

SourcePresets ==
  << [name |-> "A", zoom |-> 108, speed |-> 103],
     [name |-> "B", zoom |-> 110, speed |-> 105],
     [name |-> "C", zoom |-> 106, speed |-> 107],
     [name |-> "D", zoom |-> 112, speed |-> 102],
     [name |-> "E", zoom |-> 109, speed |-> 106],
     [name |-> "F", zoom |-> 107, speed |-> 104],
     [name |-> "G", zoom |-> 111, speed |-> 103] >>

\* the narration files INTRO_AUDIO_DIR may hold, in list_files order
VoiceFiles == [i \in 1..MaxVoices |-> <<"voice", i>>]

INTRO_AUDIO_FALLBACK == <<"intro.mp3", 0>>

Prefixes(palette) == {SubSeq(palette, 1, n) : n \in 0..Len(palette)}

VARIABLES
  \* configuration and assets
  LOOKS_7, OVERLAY_TINT_PALETTE, SPEED_ZOOM_PRESETS,
  intro_voices,     \* list_files(INTRO_AUDIO_DIR, AUDIO_EXTS)
  assets,           \* whether OUTRO_VIDEO and INTRO_AUDIO_FALLBACK exist
  \* run orchestrator
  root,             \* names of the subfolders of ROOT_DIR that hold a video
  file,             \* content of STATE_FILE
  PICK_FOLDERS_PER_RUN,
  pc,               \* "idle" between runs, "processing" inside main's loop
  cycle, done_names, eligible_folders, picked, idx, processed_names,
  params,           \* look, intro narration, tint and preset of the run
  lastExit,         \* how the last run ended: none, saved, raised, died
  runs,             \* number of runs started
  clean,            \* no folder failed, no run died on the configuration
                    \* and ROOT_DIR did not change so far
  envChanges,       \* number of changes made to ROOT_DIR from outside
  startCycle,       \* the cycle persisted before the first run
  hist,             \* folders processed since the persisted cycle changed
  prevFailed,       \* folders whose processing failed in the previous run
  \* selector calls
  selCycle, selK, selA, selB,
  \* load_state call
  loaded,
  \* process_one_folder call
  fIn,              \* the folder's clips and the assets present
  fOut,             \* what the call returned and wrote
  \* one call of a segment renderer
  rIn,              \* the renderer called and its arguments
  rOut              \* the engine command it built and what the engine wrote

cfgVars == <<LOOKS_7, OVERLAY_TINT_PALETTE, SPEED_ZOOM_PRESETS, intro_voices, assets>>
runVars == <<root, PICK_FOLDERS_PER_RUN, pc, cycle, done_names,
             eligible_folders, picked, idx, processed_names, params, lastExit,
             runs, clean, envChanges, startCycle, hist, prevFailed>>
selVars == <<selCycle, selK, selA, selB>>
folderVars == <<fIn, fOut>>
renderVars == <<rIn, rOut>>
vars == <<cfgVars, file, runVars, selVars, loaded, folderVars, renderVars>>

(***************************************************************************)
(* Deterministic Parameter Selector.  A selection is the value returned,   *)
(* or the exception the call raises.                                       *)
(***************************************************************************)
Returned(v) == [err |-> "", v |-> v]
Raised(e, v) == [err |-> e, v |-> v]

NoLook   == [name |-> "", filter |-> ""]
NoPreset == [name |-> "", zoom |-> 0, speed |-> 0]

\* lines 161-163
cycle_look(c) ==
  IF Len(LOOKS_7) = 0 THEN Raised("ZeroDivisionError", NoLook)
  ELSE Returned(LOOKS_7[((c - 1) % Len(LOOKS_7)) + 1])

pick_palette_color_hex_NoWrap(palette, c) ==
  IF Len(palette) = 0 THEN Returned("None")
  ELSE Returned(palette[IF c < 1 THEN 1 ELSE Min(c, Len(palette))])

\* lines 166-169
pick_palette_color_hex(palette, c) ==
  IF Len(palette) = 0 THEN Returned("None")
  ELSE Returned(palette[((c - 1) % Len(palette)) + 1])

\* lines 184-189
pick_intro_audio(intro_fallback, audios, c) ==
  IF Len(audios) # 0 THEN Returned(audios[((c - 1) % Len(audios)) + 1])
  ELSE Returned(intro_fallback)

\* lines 192-195
get_zoom_speed_auto(c) ==
  IF Len(SPEED_ZOOM_PRESETS) = 0 THEN Raised("ZeroDivisionError", NoPreset)
  ELSE Returned(SPEED_ZOOM_PRESETS[((c - 1) % Len(SPEED_ZOOM_PRESETS)) + 1])

\* lines 490-496: the parameters main selects for a cycle
SelectParams(c) ==
  [look   |-> cycle_look(c),
   intro  |-> pick_intro_audio(INTRO_AUDIO_FALLBACK, intro_voices, c),
   tint   |-> pick_palette_color_hex(OVERLAY_TINT_PALETTE, c),
   preset |-> get_zoom_speed_auto(c)]

NoParams ==
  [look |-> Returned(NoLook), intro |-> Returned(INTRO_AUDIO_FALLBACK),
   tint |-> Returned("None"), preset |-> Returned(NoPreset)]

ParamsRaise(p) == p.look.err # "" \/ p.preset.err # ""

(***************************************************************************)
(* Run Orchestrator (main)                                                 *)
(***************************************************************************)
eligible_names == Range(eligible_folders)

\* line 481: names of folders that are no longer eligible are dropped
FilterDone(done, eligible) == done \cap eligible

\* lines 482 and 511
CycleComplete(done, eligible) == done = eligible

Remaining_IgnoresDone(eligible, done) == eligible

\* line 486
Remaining(eligible, done) == SelectSeq(eligible, LAMBDA sf : sf \notin done)

\* lines 487-488
Pick(remaining, limit) == SubSeq(remaining, 1, Min(limit, Len(remaining)))

MarkDone_AllPicked(done, processed) == done \cup Range(picked)

\* line 510
MarkDone(done, processed) == done \cup Range(processed)

StateToSave_KeepsDone(cyc, done, eligible) ==
  IF CycleComplete(done, eligible)
  THEN save_state(cyc + 1, SortedStr(done))
  ELSE save_state(cyc, SortedStr(done))

\* lines 511-515: what the run writes
StateToSave(cyc, done, eligible) ==
  IF CycleComplete(done, eligible)
  THEN save_state(cyc + 1, <<>>)
  ELSE save_state(cyc, SortedStr(done))

FileCycle == load_state(file).cycle
FileDone  == load_state(file).done

\* folders handled so far in the current or last run, and those that failed
attempted == Range(SubSeq(picked, 1, Min(idx, Len(picked))))
failed    == attempted \ Range(processed_names)

RunIdle ==
  /\ pc = "idle"
  /\ cycle = 0 /\ done_names = {} /\ eligible_folders = <<>> /\ picked = <<>>
  /\ idx = 0 /\ processed_names = <<>> /\ params = NoParams
  /\ lastExit = "none" /\ runs = 0 /\ clean = TRUE /\ envChanges = 0
  /\ hist = {} /\ prevFailed = {}

NotLoaded == [called |-> FALSE, src |-> Absent, ret |-> DefaultState]

\* line 29; main passes it as the seed of every folder (line 505)
BASE_SEED == 42

\* seed is the seed argument of process_one_folder; earlier is the clip order
\* an earlier execution on the same folder contents and seed selected
NoFolder == [clips |-> <<>>, overlay |-> FALSE, banner |-> FALSE, cta_audio |-> FALSE,
             seed |-> BASE_SEED, earlier |-> <<>>]

\* frame tells whether the last frame file exists after extract_last_frame,
\* step is the engine call that raised ("none" when none did)
NoOut == [result |-> "none", vids |-> <<>>, cta |-> FALSE,
          tiktok |-> <<>>, production |-> <<>>, frame |-> FALSE, step |-> "none"]

FolderIdle == fIn = NoFolder /\ fOut = NoOut

NoPresetApplied == [name |-> "", zoom |-> 100, speed |-> 100]

\* tint_rgb and the flags say whether the value or file is there; strength is
\* in thousandths, zoom and speed in hundredths, durations in milliseconds;
\* a narration has its real length and whether ffprobe reports a duration
NoRenderCall ==
  [fn |-> "none", need_audio |-> FALSE, folder_overlay_png |-> FALSE,
   tint_rgb |-> FALSE, strength |-> 0, banner_png |-> FALSE,
   look_filter |-> FALSE, scale_mode |-> "fit", preset |-> NoPresetApplied,
   clip_ms |-> 0, narration |-> [ms |-> 0, reported |-> FALSE]]

NoCmd == [inputs |-> <<>>, fc |-> <<>>, maps |-> <<>>, shortest |-> FALSE]

NoRendered == [done |-> FALSE, cmd |-> NoCmd, video_ms |-> 0, audio_ms |-> 0, out_ms |-> 0]

RenderIdle == rIn = NoRenderCall /\ rOut = NoRendered

SelIdle == selCycle = 0 /\ selK = 0 /\ selA = NoParams /\ selB = NoParams

SourceConfig ==
  /\ LOOKS_7 = SourceLooks
  /\ OVERLAY_TINT_PALETTE = SourceTintPalette
  /\ SPEED_ZOOM_PRESETS = SourcePresets

AllAssets == [outro |-> TRUE, intro_fallback |-> TRUE]

\* lines 455-459: the outro is there and so is a source of intro narration
ConfigOk ==
  /\ assets.outro
  /\ assets.intro_fallback \/ intro_voices # <<>>

Init ==
  /\ SourceConfig
  /\ \/ intro_voices = VoiceFiles
        /\ assets \in {AllAssets, [AllAssets EXCEPT !.outro = FALSE]}
     \/ intro_voices = <<>>
        /\ assets = [AllAssets EXCEPT !.intro_fallback = FALSE]
  /\ root \in SUBSET Names /\ root # {}
  /\ startCycle \in 1..MaxStartCycle
  /\ file \in {Absent, save_state(startCycle, <<>>)}
  /\ file = Absent => startCycle = 1
  /\ PICK_FOLDERS_PER_RUN \in 1..MaxPick
  /\ RunIdle /\ SelIdle /\ loaded = NotLoaded /\ FolderIdle /\ RenderIdle

\* main, lines 451-500, when at least one folder is eligible
StartRun ==
  /\ pc = "idle" /\ runs < MaxRuns /\ ConfigOk /\ root # {}
  /\ \E listing \in Listings(root) :
       LET state    == load_state(file)
           eligible == SortedNatural(listing)
           filtered == FilterDone(Range(state.done), Range(eligible))
           rollover == CycleComplete(filtered, Range(eligible))
           done     == IF rollover THEN {} ELSE filtered
           cyc      == IF rollover THEN state.cycle + 1 ELSE state.cycle
       IN  /\ eligible_folders' = eligible
           /\ done_names' = done
           /\ cycle' = cyc
           /\ picked' = Pick(Remaining(eligible, done), PICK_FOLDERS_PER_RUN)
           /\ params' = SelectParams(cyc)
  /\ idx' = 1 /\ processed_names' = <<>>
  /\ IF ParamsRaise(params')
     THEN pc' = "idle" /\ lastExit' = "raised"
     ELSE pc' = "processing" /\ lastExit' = lastExit
  /\ runs' = runs + 1
  /\ prevFailed' = failed
  /\ UNCHANGED <<cfgVars, root, file, PICK_FOLDERS_PER_RUN, clean, envChanges,
                 startCycle, hist, selVars, loaded, folderVars, renderVars>>

\* main, lines 455-459: the outro or every source of intro narration is
\* missing, die() before the state is loaded
DieConfig ==
  /\ pc = "idle" /\ runs < MaxRuns /\ ~ConfigOk
  /\ runs' = runs + 1 /\ lastExit' = "died" /\ clean' = FALSE
  /\ UNCHANGED <<cfgVars, root, file, PICK_FOLDERS_PER_RUN, pc, cycle, done_names,
                 eligible_folders, picked, idx, processed_names, params,
                 envChanges, startCycle, hist, prevFailed, selVars, loaded, folderVars, renderVars>>

\* main, lines 475-478: no eligible folder, die() leaves everything as it was
DieNoEligible ==
  /\ pc = "idle" /\ runs < MaxRuns /\ ConfigOk /\ root = {}
  /\ runs' = runs + 1 /\ lastExit' = "died"
  /\ UNCHANGED <<cfgVars, root, file, PICK_FOLDERS_PER_RUN, pc, cycle, done_names,
                 eligible_folders, picked, idx, processed_names, params, clean,
                 envChanges, startCycle, hist, prevFailed, selVars, loaded, folderVars, renderVars>>

AfterFolder_SavesEachFolder(processed) ==
  LET done == MarkDone(done_names, processed)
      out  == StateToSave(cycle, done, eligible_names)
  IN  IF idx < Len(picked)
      THEN /\ idx' = idx + 1
           /\ file' = out
           /\ hist' = hist \cup Range(processed)
           /\ UNCHANGED <<pc, done_names, lastExit>>
      ELSE /\ done_names' = done
           /\ file' = out
           /\ pc' = "idle" /\ lastExit' = "saved"
           /\ hist' = IF load_state(out).cycle = FileCycle
                      THEN hist \cup Range(processed)
                      ELSE IF CycleComplete(done, eligible_names) THEN {}
                      ELSE Range(processed)
           /\ UNCHANGED idx

\* the rest of main after process_one_folder returned for picked[idx]:
\* the next folder, or lines 510-516 after the last one
AfterFolder(processed) ==
  IF idx < Len(picked)
  THEN /\ idx' = idx + 1
       /\ hist' = hist \cup Range(processed)
       /\ UNCHANGED <<pc, file, done_names, lastExit>>
  ELSE LET done == MarkDone(done_names, processed)
           out  == StateToSave(cycle, done, eligible_names)
       IN  /\ done_names' = done
           /\ file' = out
           /\ pc' = "idle" /\ lastExit' = "saved"
           /\ hist' = IF load_state(out).cycle = FileCycle
                      THEN hist \cup Range(processed)
                      ELSE IF CycleComplete(done, eligible_names) THEN {}
                      ELSE Range(processed)
           /\ UNCHANGED idx

\* process_one_folder returns True (line 448)
ProcessOk ==
  /\ pc = "processing" /\ picked[idx] \in root
  /\ processed_names' = Append(processed_names, picked[idx])
  /\ AfterFolder(processed_names')
  /\ UNCHANGED <<cfgVars, root, PICK_FOLDERS_PER_RUN, cycle, eligible_folders,
                 picked, params, runs, clean, envChanges, startCycle,
                 prevFailed, selVars, loaded, folderVars, renderVars>>

\* process_one_folder returns False (lines 375-378): the folder holds no
\* video any more
ProcessSkip ==
  /\ pc = "processing" /\ picked[idx] \notin root
  /\ AfterFolder(processed_names)
  /\ clean' = FALSE
  /\ UNCHANGED <<cfgVars, root, PICK_FOLDERS_PER_RUN, cycle, eligible_folders,
                 picked, params, processed_names, runs, envChanges, startCycle,
                 prevFailed, selVars, loaded, folderVars, renderVars>>

\* an engine call of process_one_folder fails: run() or ffprobe_json raises
\* (lines 70-73, 82-87), nothing in main catches it and the run ends
ProcessRaise ==
  /\ pc = "processing" /\ picked[idx] \in root
  /\ pc' = "idle" /\ lastExit' = "raised" /\ clean' = FALSE
  /\ hist' = hist \cup Range(processed_names)
  /\ UNCHANGED <<cfgVars, root, file, PICK_FOLDERS_PER_RUN, cycle, done_names,
                 eligible_folders, picked, idx, processed_names, params, runs,
                 envChanges, startCycle, prevFailed, selVars, loaded, folderVars, renderVars>>

\* the environment adds a folder with videos between two runs
AddFolder ==
  /\ pc = "idle" /\ envChanges < MaxEnvChanges
  /\ \E f \in Names \ root : root' = root \cup {f}
  /\ clean' = FALSE /\ envChanges' = envChanges + 1
  /\ UNCHANGED <<cfgVars, file, PICK_FOLDERS_PER_RUN, pc, cycle, done_names,
                 eligible_folders, picked, idx, processed_names, params,
                 lastExit, runs, startCycle, hist, prevFailed, selVars, loaded, folderVars, renderVars>>

\* the environment removes a folder, or its last video, at any time
RemoveFolder ==
  /\ envChanges < MaxEnvChanges
  /\ \E f \in root : root' = root \ {f}
  /\ clean' = FALSE /\ envChanges' = envChanges + 1
  /\ UNCHANGED <<cfgVars, file, PICK_FOLDERS_PER_RUN, pc, cycle, done_names,
                 eligible_folders, picked, idx, processed_names, params,
                 lastExit, runs, startCycle, hist, prevFailed, selVars, loaded, folderVars, renderVars>>

Next ==
  \/ StartRun
  \/ DieConfig
  \/ DieNoEligible
  \/ ProcessOk
  \/ ProcessSkip
  \/ ProcessRaise
  \/ AddFolder
  \/ RemoveFolder

Spec == Init /\ [][Next]_vars

(***************************************************************************)
(* The selectors on their own: every palette may have been edited down to  *)
(* any prefix of the source's palette, the empty one included.             *)
(***************************************************************************)
InitSel ==
  /\ LOOKS_7 \in Prefixes(SourceLooks)
  /\ OVERLAY_TINT_PALETTE \in Prefixes(SourceTintPalette)
  /\ SPEED_ZOOM_PRESETS \in Prefixes(SourcePresets)
  /\ intro_voices \in Prefixes(VoiceFiles) /\ assets = AllAssets
  /\ root = {} /\ file = Absent /\ startCycle = 1 /\ PICK_FOLDERS_PER_RUN = 1
  /\ RunIdle /\ SelIdle /\ loaded = NotLoaded /\ FolderIdle /\ RenderIdle

\* the four selections of lines 490-496 for cycle c, and for the cycle
\* k palette lengths further
Select ==
  /\ \E c \in 1..MaxSelCycle, k \in (0 - MaxSelK)..MaxSelK :
       /\ selCycle' = c /\ selK' = k
       /\ selA' = SelectParams(c)
       /\ selB' = [look   |-> cycle_look(c + k * Len(LOOKS_7)),
                   intro  |-> pick_intro_audio(INTRO_AUDIO_FALLBACK, intro_voices,
                                               c + k * Len(intro_voices)),
                   tint   |-> pick_palette_color_hex(OVERLAY_TINT_PALETTE,
                                               c + k * Len(OVERLAY_TINT_PALETTE)),
                   preset |-> get_zoom_speed_auto(c + k * Len(SPEED_ZOOM_PRESETS))]
  /\ UNCHANGED <<cfgVars, file, runVars, loaded, folderVars, renderVars>>

NextSel == Select

SpecSel == InitSel /\ [][NextSel]_vars

(***************************************************************************)
(* load_state on its own: the state file holds any content.                *)
(***************************************************************************)
Member(t, i, l) == [t |-> t, i |-> i, l |-> l]

JsonItems ==
  {JStr(e2), JStr(e10), [t |-> "int", s |-> <<>>], [t |-> "null", s |-> <<>>],
   [t |-> "bool", s |-> <<>>]}

JsonLists == UNION {[1..n -> JsonItems] : n \in 0..MaxDoneLen}

CycleMembers ==
  {NoMember} \cup {JInt(n) : n \in -1..3}
             \cup {Member("bool", b, <<>>) : b \in 0..1}
             \cup {Member(t, 0, <<>>) : t \in {"float", "str", "null", "list"}}

DoneMembers ==
  {NoMember} \cup {JList(l) : l \in JsonLists}
             \cup {Member(t, 0, <<>>) : t \in {"str", "null", "int", "object"}}

Contents ==
  {Absent}
  \cup {[k |-> kind, cycle |-> NoMember, done |-> NoMember] : kind \in {"garbage", "nonobject"}}
  \cup {[k |-> "object", cycle |-> c, done |-> d] : c \in CycleMembers, d \in DoneMembers}

InitLoad ==
  /\ SourceConfig /\ intro_voices = <<>> /\ assets = AllAssets
  /\ root = {} /\ file = Absent /\ startCycle = 1 /\ PICK_FOLDERS_PER_RUN = 1
  /\ RunIdle /\ SelIdle /\ loaded = NotLoaded /\ FolderIdle /\ RenderIdle

\* something outside the program replaces the state file
WriteFile ==
  /\ \E content \in Contents : file' = content
  /\ loaded' = NotLoaded
  /\ UNCHANGED <<cfgVars, runVars, selVars, folderVars, renderVars>>

\* line 471
LoadState ==
  /\ ~loaded.called
  /\ loaded' = [called |-> TRUE, src |-> file, ret |-> load_state(file)]
  /\ UNCHANGED <<cfgVars, file, runVars, selVars, folderVars, renderVars>>

NextLoad ==
  \/ WriteFile
  \/ LoadState

SpecLoad == InitLoad /\ [][NextLoad]_vars

(***************************************************************************)
(* process_one_folder on its own.  A clip is its rank in list_files order; *)
(* a segment file is described by its kind, the clip it was rendered from, *)
(* the rendition it was rendered for and whether the banner is on it.      *)
(***************************************************************************)
MAX_VIDEOS_PER_FOLDER == 3

Segment(kind, clip, cut, banner) ==
  [kind |-> kind, clip |-> clip, cut |-> cut, banner |-> banner]

\* random.shuffle(vids): the generator is never seeded, any order may result
Shuffles(vids) == {[i \in 1..Len(vids) |-> vids[p[i]]] : p \in Listings(1..Len(vids))}

\* lines 388-389
CapVideos(vids, max_videos) ==
  IF max_videos > 0 THEN SubSeq(vids, 1, Min(max_videos, Len(vids))) ELSE vids

\* lines 404-405
IntroSegment(vids) == Segment("intro", vids[1], "tiktok", FALSE)

\* lines 410-414: the first body carries no banner
BodyTiktok(vids, banner) ==
  [i \in 1..Len(vids) |-> Segment("body", vids[i], "tiktok", banner /\ i # 1)]

\* lines 416-418
BodyProd(vids) ==
  [i \in 1..Len(vids) |-> Segment("body", vids[i], "production", FALSE)]

PreOutro_IgnoresFrame(body_tiktok, cta_audio, frame_extracted) ==
  IF Len(body_tiktok) > 0 /\ cta_audio
  THEN <<Segment("cta", body_tiktok[Len(body_tiktok)].clip, "tiktok", FALSE)>>
  ELSE <<>>

\* lines 420-430: the freeze frame of the last social body segment
PreOutro(body_tiktok, cta_audio, frame_extracted) ==
  IF Len(body_tiktok) > 0 /\ cta_audio /\ frame_extracted
  THEN <<Segment("cta", body_tiktok[Len(body_tiktok)].clip, "tiktok", FALSE)>>
  ELSE <<>>

\* lines 432-433
OutroSegment == Segment("outro", 0, "shared", FALSE)

\* line 436
ListTiktok(intro, body_tiktok, pre_outro_seg, outro) ==
  <<intro>> \o body_tiktok \o pre_outro_seg \o <<outro>>

ListProd_OutroBeforeCta(body_prod, pre_outro_seg, outro) ==
  body_prod \o <<outro>> \o pre_outro_seg

\* line 441
ListProd(body_prod, pre_outro_seg, outro) ==
  body_prod \o pre_outro_seg \o <<outro>>

\* lines 354-371: input i of the command is file_list[i], and the concat
\* filter reads the pins [0:v][0:a] ... [n-1:v][n-1:a] in that order
concat_segments(file_list) ==
  LET inputs == file_list
      pins   == [i \in 1..Len(file_list) |-> i - 1]
  IN  [j \in 1..Len(pins) |-> inputs[pins[j] + 1]]

\* the engine calls of process_one_folder in the order they are made
EngineSteps == <<"probe", "intro", "body", "static", "outro", "concat_tiktok", "concat_production">>

StepNo(step) == CHOOSE i \in 1..Len(EngineSteps) : EngineSteps[i] = step

InitFolder ==
  /\ SourceConfig /\ intro_voices = <<>> /\ assets = AllAssets
  /\ root = {} /\ file = Absent /\ startCycle = 1 /\ PICK_FOLDERS_PER_RUN = 1
  /\ RunIdle /\ SelIdle /\ loaded = NotLoaded /\ RenderIdle
  /\ \E n \in 0..MaxClips, ov \in BOOLEAN, bn \in BOOLEAN, cta \in BOOLEAN :
       fIn = [clips |-> [i \in 1..n |-> i], overlay |-> ov, banner |-> bn,
              cta_audio |-> cta, seed |-> BASE_SEED, earlier |-> <<>>]
  /\ fOut = NoOut

\* lines 375-378: no video in the folder
FolderEmpty ==
  /\ fOut.result = "none" /\ fIn.clips = <<>>
  /\ fOut' = [NoOut EXCEPT !.result = "False"]
  /\ UNCHANGED <<cfgVars, file, runVars, selVars, loaded, fIn, renderVars>>

\* lines 380-448, every engine call succeeding; extracting the last frame
\* may still leave no frame file (lines 210-215)
FolderOk ==
  /\ fOut.result = "none" /\ fIn.clips # <<>>
  /\ \E shuffled \in Shuffles(fIn.clips), frame_extracted \in BOOLEAN :
       LET vids  == CapVideos(shuffled, MAX_VIDEOS_PER_FOLDER)
           intro == IntroSegment(vids)
           normalized_body_tiktok == BodyTiktok(vids, fIn.banner)
           normalized_body_prod   == BodyProd(vids)
           pre_outro_seg == PreOutro(normalized_body_tiktok, fIn.cta_audio, frame_extracted)
       IN  fOut' = [result |-> "True", vids |-> vids, cta |-> pre_outro_seg # <<>>,
                    tiktok |-> concat_segments(
                       ListTiktok(intro, normalized_body_tiktok, pre_outro_seg, OutroSegment)),
                    production |-> concat_segments(
                       ListProd(normalized_body_prod, pre_outro_seg, OutroSegment)),
                    frame |-> fIn.cta_audio /\ frame_extracted, step |-> "none"]
  /\ UNCHANGED <<cfgVars, file, runVars, selVars, loaded, fIn, renderVars>>

\* lines 380-443, one engine call failing: run() or ffprobe_json raises and
\* process_one_folder does not catch it.  The social rendition has been
\* written when only the production concat fails.
FolderRaises ==
  /\ fOut.result = "none" /\ fIn.clips # <<>>
  /\ \E shuffled \in Shuffles(fIn.clips), frame_extracted \in BOOLEAN,
        step \in Range(EngineSteps) :
       LET vids  == CapVideos(shuffled, MAX_VIDEOS_PER_FOLDER)
           intro == IntroSegment(vids)
           normalized_body_tiktok == BodyTiktok(vids, fIn.banner)
           pre_outro_seg ==
             IF StepNo(step) > StepNo("static")
             THEN PreOutro(normalized_body_tiktok, fIn.cta_audio, frame_extracted)
             ELSE <<>>
       IN  \* the static segment is rendered only when the frame was extracted
           /\ step = "static" => (fIn.cta_audio /\ frame_extracted)
           /\ fOut' = [result |-> "raised", vids |-> vids, cta |-> pre_outro_seg # <<>>,
                       tiktok |-> IF step = "concat_production"
                                  THEN concat_segments(ListTiktok(intro,
                                         normalized_body_tiktok, pre_outro_seg, OutroSegment))
                                  ELSE <<>>,
                       production |-> <<>>,
                       frame |-> /\ StepNo(step) >= StepNo("static")
                                 /\ fIn.cta_audio /\ frame_extracted,
                       step |-> step]
  /\ UNCHANGED <<cfgVars, file, runVars, selVars, loaded, fIn, renderVars>>

\* process_one_folder is executed again on the same folder contents with the
\* same seed argument (line 374); the order selected before is remembered
FolderAgain ==
  /\ fOut.result = "True" /\ fIn.earlier = <<>>
  /\ fIn' = [fIn EXCEPT !.earlier = fOut.vids]
  /\ fOut' = NoOut
  /\ UNCHANGED <<cfgVars, file, runVars, selVars, loaded, renderVars>>

NextFolder ==
  \/ FolderEmpty
  \/ FolderOk
  \/ FolderRaises
  \/ FolderAgain

SpecFolder == InitFolder /\ [][NextFolder]_vars

(***************************************************************************)
(* Segment renderers.  An engine command is the inputs in the order they   *)
(* are added, the chains of -filter_complex in the order they are joined,  *)
(* the -map labels and the -shortest flag.  A label is an input pin        *)
(* [n:v] / [n:a] or a name.  Durations are in milliseconds, speed and zoom *)
(* in hundredths, the tint strength in thousandths.                        *)
(***************************************************************************)
OVERLAY_TINT_STRENGTH == 850

Pin(n, media) == [pin |-> TRUE, name |-> media, n |-> n]

Label(name) == [pin |-> FALSE, name |-> name, n |-> 0]

\* str() of an input index inside an f-string
Str(n) == <<"0", "1", "2", "3", "4">>[n + 1]

\* -loop 1: the image never ends
Forever == 1000 * 1000 * 10

Input(src, streams, ms) == [src |-> src, streams |-> streams, ms |-> ms]

\* speed is the factor of setpts=PTS/speed or atempo=speed when the chain
\* has one of them
Chain(ins, filters, outs, speed) ==
  [ins |-> ins, filters |-> filters, outs |-> outs,
   speed |-> IF \E i \in 1..Len(filters) : filters[i] \in {"setpts=PTS/speed", "atempo=speed"}
             THEN speed ELSE 100]

Max(a, b) == IF a > b THEN a ELSE b

\* lines 109-119: 0.0 when ffprobe reports no duration
get_media_duration_seconds(media) == IF media.reported THEN media.ms ELSE 0

\* lines 218-231
build_base_chain(scale_mode, look_filter, zoom, speed) ==
  (IF scale_mode = "fill"
   THEN <<"scale=increase", "crop", "setsar=1">>
   ELSE <<"scale=decrease", "pad", "setsar=1">>)
  \o <<"setpts=PTS-STARTPTS">>
  \o (IF speed # 100 THEN <<"setpts=PTS/speed">> ELSE <<>>)
  \o <<"fps">>
  \o (IF look_filter THEN <<"look">> ELSE <<>>)
  \o (IF zoom > 100 THEN <<"scale=zoom", "crop">> ELSE <<>>)

overlay_tint_chains_NoSplit(input_label, out_label, tint_rgb, strength, prefix) ==
  LET ovraw == Label(prefix \o "ovraw")
      ovb2  == Label(prefix \o "ovb2")
      s     == Max(0, Min(1000, strength))
      first == Chain(<<input_label>>, <<"scale", "format=rgba", "colorkey">>, <<ovraw>>, 100)
  IN  IF ~tint_rgb
      THEN <<first, Chain(<<ovraw>>, <<"null">>, <<out_label>>, 100)>>
      ELSE IF s >= 999
      THEN <<first, Chain(<<ovraw>>, <<"colorchannelmixer">>, <<out_label>>, 100)>>
      ELSE <<first,
             Chain(<<ovraw>>, <<"colorchannelmixer">>, <<ovb2>>, 100),
             Chain(<<ovraw, ovb2>>, <<"blend">>, <<out_label>>, 100)>>

\* lines 234-254 (MAKE_BLACK_TRANSPARENT is True, line 22)
overlay_tint_chains(input_label, out_label, tint_rgb, strength, prefix) ==
  LET ovraw == Label(prefix \o "ovraw")
      ova   == Label(prefix \o "ova")
      ovb   == Label(prefix \o "ovb")
      ovb2  == Label(prefix \o "ovb2")
      s     == Max(0, Min(1000, strength))
      first == Chain(<<input_label>>, <<"scale", "format=rgba", "colorkey">>, <<ovraw>>, 100)
  IN  IF ~tint_rgb
      THEN <<first, Chain(<<ovraw>>, <<"null">>, <<out_label>>, 100)>>
      ELSE IF s >= 999
      THEN <<first, Chain(<<ovraw>>, <<"colorchannelmixer">>, <<out_label>>, 100)>>
      ELSE <<first,
             Chain(<<ovraw>>, <<"split=2">>, <<ova, ovb>>, 100),
             Chain(<<ovb>>, <<"colorchannelmixer">>, <<ovb2>>, 100),
             Chain(<<ova, ovb2>>, <<"blend">>, <<out_label>>, 100)>>

\* lines 257-303.  The silent source is added with -t 0.1 (line 262).
transcode_with_optional_overlay(in_ms, need_audio, scale_mode, look_filter, folder_overlay_png, apply_folder_overlay, overlay_tint_rgb, overlay_tint_strength, banner_png, zoom, speed) ==
  LET base == build_base_chain(scale_mode, look_filter, zoom, speed)
      in_video == Input("in_video", IF need_audio THEN {"v", "a"} ELSE {"v"}, in_ms)
      silence  == IF ~need_audio THEN <<Input("anullsrc", {"a"}, 100)>> ELSE <<>>
      v0       == Chain(<<Pin(0, "v")>>, base \o <<"format=rgba">>, <<Label("v0")>>, speed)
      idx0     == IF ~need_audio THEN 2 ELSE 1
      with_overlay == apply_folder_overlay /\ folder_overlay_png
      ov_input == IF with_overlay THEN <<Input("overlay.png", {"v"}, Forever)>> ELSE <<>>
      ov_label == Label("v" \o Str(idx0))
      ov_chains ==
        IF with_overlay
        THEN overlay_tint_chains(Pin(idx0, "v"), Label("ov_folder"), overlay_tint_rgb,
                                 overlay_tint_strength, "t1_")
             \o <<Chain(<<Label("v0"), Label("ov_folder")>>, <<"overlay", "format=rgba">>,
                        <<ov_label>>, 100)>>
        ELSE <<>>
      v1   == IF with_overlay THEN ov_label ELSE Label("v0")
      idx1 == IF with_overlay THEN idx0 + 1 ELSE idx0
      bn_input == IF banner_png THEN <<Input("banner.png", {"v"}, Forever)>> ELSE <<>>
      bn_chains ==
        IF banner_png
        THEN <<Chain(<<Pin(idx1, "v")>>, <<"scale", "format=rgba", "colorkey">>,
                     <<Label("ov_banner")>>, 100),
               Chain(<<v1, Label("ov_banner")>>, <<"overlay", "format=yuv420p">>,
                     <<Label("v_final_banner")>>, 100)>>
        ELSE <<Chain(<<v1>>, <<"setsar=1", "format=yuv420p">>, <<Label("v_final_out")>>, 100)>>
      current_v_label == IF banner_png THEN Label("v_final_banner") ELSE Label("v_final_out")
      a_chain ==
        IF need_audio
        THEN IF speed # 100
             THEN Chain(<<Pin(0, "a")>>, <<"atempo=speed", "aformat">>, <<Label("a_out")>>, speed)
             ELSE Chain(<<Pin(0, "a")>>, <<"aformat">>, <<Label("a_out")>>, speed)
        ELSE Chain(<<Pin(1, "a")>>, <<"aformat">>, <<Label("a_out")>>, speed)
  IN  [inputs |-> <<in_video>> \o silence \o ov_input \o bn_input,
       fc     |-> <<v0>> \o ov_chains \o bn_chains \o <<a_chain>>,
       maps   |-> <<current_v_label, Label("a_out")>>,
       shortest |-> TRUE]

\* lines 309-311
IntroDuration(intro_audio) ==
  LET intro_duration == get_media_duration_seconds(intro_audio)
  IN  IF intro_duration <= 50 THEN 3000 ELSE intro_duration

\* lines 307-344.  -ss 0.1 -t intro_duration are options of the first input:
\* the engine reads intro_duration of the clip from 0.1 s on, or what is left.
make_intro_from_video(clip_ms, need_audio, intro_audio, scale_mode, look_filter, folder_overlay_png, overlay_tint_rgb, overlay_tint_strength, zoom, speed) ==
  LET intro_duration == IntroDuration(intro_audio)
      base == build_base_chain(scale_mode, look_filter, zoom, speed)
      first_video == Input("first_video", IF need_audio THEN {"v", "a"} ELSE {"v"},
                           Min(intro_duration, Max(0, clip_ms - 100)))
      narration == Input("intro_audio", {"a"}, intro_audio.ms)
      v0 == Chain(<<Pin(0, "v")>>, base \o <<"format=rgba">>, <<Label("v0")>>, speed)
      input_idx == 2
      ov_input == IF folder_overlay_png THEN <<Input("overlay.png", {"v"}, Forever)>> ELSE <<>>
      ov_label == Label("v" \o Str(input_idx))
      ov_chains ==
        IF folder_overlay_png
        THEN overlay_tint_chains(Pin(input_idx, "v"), Label("ov_folder"), overlay_tint_rgb,
                                 overlay_tint_strength, "t2_")
             \o <<Chain(<<Label("v0"), Label("ov_folder")>>, <<"overlay", "format=rgba">>,
                        <<ov_label>>, 100)>>
        ELSE <<>>
      v1 == IF folder_overlay_png THEN ov_label ELSE Label("v0")
      final == Chain(<<v1>>, <<"setsar=1", "format=yuv420p">>, <<Label("v_final_out")>>, 100)
      audio_chain ==
        Chain(<<Pin(1, "a")>>,
              (IF speed # 100 THEN <<"atempo=speed">> ELSE <<>>) \o <<"aformat">>,
              <<Label("a_out")>>, speed)
  IN  [inputs |-> <<first_video, narration>> \o ov_input,
       fc     |-> <<v0>> \o ov_chains \o <<final, audio_chain>>,
       maps   |-> <<Label("v_final_out"), Label("a_out")>>,
       shortest |-> TRUE]

\* lines 347-351
make_static_segment(audio, scale_mode, look_filter) ==
  LET base == build_base_chain(scale_mode, look_filter, 100, 100)
  IN  [inputs |-> <<Input("image", {"v"}, Forever), Input("audio", {"a"}, audio.ms)>>,
       fc     |-> <<Chain(<<Pin(0, "v")>>, base \o <<"setsar=1", "format=yuv420p">>,
                          <<Label("v")>>, 100),
                    Chain(<<Pin(1, "a")>>, <<"aformat">>, <<Label("a")>>, 100)>>,
       maps   |-> <<Label("v"), Label("a")>>,
       shortest |-> TRUE]

(***************************************************************************)
(* The engine, as far as the commands above use it: a stream runs as long  *)
(* as the input it is read from, setpts=PTS/speed and atempo=speed divide  *)
(* its length by speed, a chain of two inputs (overlay, blend) ends with   *)
(* its first input, and -shortest ends the output with the shorter of the  *)
(* mapped streams.                                                         *)
(***************************************************************************)
Defining(cmd, label) ==
  CHOOSE i \in 1..Len(cmd.fc) : label \in Range(cmd.fc[i].outs)

RECURSIVE Duration(_, _)
Duration(cmd, label) ==
  IF label.pin
  THEN cmd.inputs[label.n + 1].ms
  ELSE LET c == cmd.fc[Defining(cmd, label)]
           d == Duration(cmd, c.ins[1])
       IN  IF d = Forever THEN Forever ELSE (d * 100) \div c.speed

\* lines 70-73 with the command run: what the engine writes
run(cmd) ==
  LET video_ms == Duration(cmd, cmd.maps[1])
      audio_ms == Duration(cmd, cmd.maps[2])
  IN  [done |-> TRUE, cmd |-> cmd, video_ms |-> video_ms, audio_ms |-> audio_ms,
       out_ms |-> IF cmd.shortest THEN Min(video_ms, audio_ms) ELSE Max(video_ms, audio_ms)]

ClipDurations == {50, 2000, 10000}

Narrations == [ms : {40, 4200}, reported : BOOLEAN]

RenderFns == {"body", "outro", "intro", "static"}

InitRender ==
  /\ SourceConfig /\ intro_voices = <<>> /\ assets = AllAssets
  /\ root = {} /\ file = Absent /\ startCycle = 1 /\ PICK_FOLDERS_PER_RUN = 1
  /\ RunIdle /\ SelIdle /\ loaded = NotLoaded /\ FolderIdle
  /\ rIn \in [fn : RenderFns, need_audio : BOOLEAN, folder_overlay_png : BOOLEAN,
              tint_rgb : BOOLEAN, strength : {OVERLAY_TINT_STRENGTH, 1000},
              banner_png : BOOLEAN, look_filter : BOOLEAN,
              scale_mode : {"fit", "fill"},
              preset : Range(SourcePresets) \cup {NoPresetApplied},
              clip_ms : ClipDurations, narration : Narrations]
  /\ rOut = NoRendered

\* lines 410-418: a body segment of either rendition
TranscodeBody ==
  /\ rIn.fn = "body" /\ ~rOut.done
  /\ rOut' = run(transcode_with_optional_overlay(rIn.clip_ms, rIn.need_audio,
                   rIn.scale_mode, rIn.look_filter, rIn.folder_overlay_png, TRUE,
                   rIn.tint_rgb, rIn.strength, rIn.banner_png,
                   rIn.preset.zoom, rIn.preset.speed))
  /\ UNCHANGED <<cfgVars, file, runVars, selVars, loaded, folderVars, rIn>>

\* lines 432-433: the outro has no look, overlay, tint, banner, zoom or speed
TranscodeOutro ==
  /\ rIn.fn = "outro" /\ ~rOut.done
  /\ rOut' = run(transcode_with_optional_overlay(rIn.clip_ms, rIn.need_audio,
                   rIn.scale_mode, FALSE, FALSE, FALSE, FALSE, 0, FALSE, 100, 100))
  /\ UNCHANGED <<cfgVars, file, runVars, selVars, loaded, folderVars, rIn>>

\* lines 404-405
MakeIntro ==
  /\ rIn.fn = "intro" /\ ~rOut.done
  /\ rOut' = run(make_intro_from_video(rIn.clip_ms, rIn.need_audio, rIn.narration,
                   rIn.scale_mode, rIn.look_filter, rIn.folder_overlay_png,
                   rIn.tint_rgb, rIn.strength, rIn.preset.zoom, rIn.preset.speed))
  /\ UNCHANGED <<cfgVars, file, runVars, selVars, loaded, folderVars, rIn>>

\* lines 428-429: the call to action, rendered without a look
MakeStatic ==
  /\ rIn.fn = "static" /\ ~rOut.done
  /\ rOut' = run(make_static_segment(rIn.narration, rIn.scale_mode, FALSE))
  /\ UNCHANGED <<cfgVars, file, runVars, selVars, loaded, folderVars, rIn>>

NextRender ==
  \/ TranscodeBody
  \/ TranscodeOutro
  \/ MakeIntro
  \/ MakeStatic

SpecRender == InitRender /\ [][NextRender]_vars

(***************************************************************************)
(* Properties of the run orchestrator                                      *)
(***************************************************************************)
NoDuplicates(seq) == \A i, j \in 1..Len(seq) : seq[i] = seq[j] => i = j

RunEnded == pc = "idle" /\ lastExit \in {"saved", "raised"}
RunSaved == pc = "idle" /\ lastExit = "saved"

\* C1: the done list a run persists has no duplicates, holds only names
\* eligible in that run and is never the whole eligible set; when the done
\* set with the folders processed in the run equals the eligible set the
\* run writes cycle+1 together with an empty done, otherwise the unchanged
\* cycle together with the done set.
C1_PersistedDoneRoundRobin ==
  RunSaved =>
    /\ NoDuplicates(file.done.l)
    /\ Range(FileDone) \subseteq eligible_names
    /\ Range(FileDone) # eligible_names
    /\ IF done_names = eligible_names
       THEN file = save_state(cycle + 1, <<>>)
       ELSE FileCycle = cycle /\ Range(FileDone) = done_names

C1_Witness ==
  /\ RunSaved /\ done_names = eligible_names
  /\ Cardinality(eligible_names) >= 2 /\ FileCycle = cycle + 1 /\ FileDone = <<>>

\* number of runs one cycle takes with n folders and k picks per run
RunsPerCycle(n, k) == (n + k - 1) \div k

\* C2: with a fixed folder set, every folder succeeding and a start from
\* {cycle c, done empty}, each run processes exactly min(K, not yet done)
\* folders and adds exactly those to done while the cycle stays, until the
\* run that processes the last one persists cycle+1 and an empty done; so
\* after r runs the cycle is c + r div ceil(N/K) and done holds
\* (r mod ceil(N/K)) * K names.
C2_FixedSetProgress ==
  (clean /\ pc = "idle" /\ runs >= 1) =>
    LET N == Cardinality(root)
        K == PICK_FOLDERS_PER_RUN
        P == RunsPerCycle(N, K)
        before == done_names \ Range(picked)
    IN  /\ processed_names = picked
        /\ Len(picked) = Min(K, N - Cardinality(before))
        /\ done_names = before \cup Range(picked)
        /\ Cardinality(done_names) = Cardinality(before) + Len(picked)
        /\ IF done_names = root
           THEN FileCycle = cycle + 1 /\ FileDone = <<>>
           ELSE FileCycle = cycle /\ Range(FileDone) = done_names
        /\ FileCycle = startCycle + (runs \div P)
        /\ Len(FileDone) = (runs % P) * K

\* the scenario of 3 folders, 2 picks per run, start cycle 1, after run 2
C2_Witness ==
  /\ clean /\ pc = "idle" /\ Cardinality(root) = 3 /\ PICK_FOLDERS_PER_RUN = 2
  /\ startCycle = 1 /\ runs = 2 /\ FileCycle = 2 /\ FileDone = <<>>

\* the same scenario after run 1: cycle 1 with two done entries
C2_ScenarioRun1 ==
  (clean /\ pc = "idle" /\ Cardinality(root) = 3 /\ PICK_FOLDERS_PER_RUN = 2
     /\ startCycle = 1 /\ runs = 1)
  => (FileCycle = 1 /\ Len(FileDone) = 2)

\* C3: when processing of a picked folder fails, the run skips it, goes on
\* with the remaining picked folders and saves a state that marks the
\* processed folders done and not the failed one.
C3_FailedFolderIsSkipped ==
  (RunEnded /\ failed # {}) =>
    /\ lastExit = "saved"
    /\ attempted = Range(picked)
    /\ Range(processed_names) \subseteq Range(FileDone)
    /\ failed \cap Range(FileDone) = {}

\* C4: a folder whose processing failed in a run is absent from the
\* persisted done after that run and, if still eligible, is picked and
\* processed again in the next run.
C4_FailedFolderRetriedNextRun ==
  RunEnded =>
    /\ failed \cap Range(FileDone) = {}
    /\ (prevFailed \cap eligible_names) \subseteq attempted

\* C5: the persisted cycle is an integer >= 1 that never decreases, and it
\* increases only when every folder eligible at that moment has been
\* processed at least once since the cycle last changed.
C5_CycleMonotonic ==
  [][ /\ FileCycle >= 1 /\ FileCycle' >= FileCycle
      /\ (file'.k = "object" => file'.cycle.t = "int" /\ file'.cycle.i >= 1)
      /\ (FileCycle' > FileCycle =>
            eligible_names \subseteq hist \cup Range(processed_names')) ]_vars

\* the cycle advanced twice, the second time after ROOT_DIR had changed
C5_Witness ==
  RunSaved /\ envChanges >= 1 /\ FileCycle >= startCycle + 2

\* C9: the picked folders are the first min(PICK_FOLDERS_PER_RUN, remaining)
\* folders, in the natural-sort order of the eligible folders, among those
\* not in done: none is done, none is picked twice, at most the limit are
\* picked, and the eligible set and the done set determine the picked list
\* whatever order the directory was listed in.
C9_PickedDetermined ==
  pc = "processing" =>
    /\ Range(picked) \cap done_names = {}
    /\ NoDuplicates(picked)
    /\ Len(picked) = Min(PICK_FOLDERS_PER_RUN, Cardinality(eligible_names \ done_names))
    /\ \A listing \in Listings(eligible_names) :
         picked = Pick(Remaining(SortedNatural(listing), done_names), PICK_FOLDERS_PER_RUN)

(***************************************************************************)
(* Properties of the selectors                                             *)
(***************************************************************************)
\* C6: for every cycle c, every palette of length L and any integer k the
\* entry selected for cycle c + k*L is the entry selected for cycle c, and
\* it is the palette entry at index (c-1) mod L.
C6_SelectionPeriodic ==
  selCycle >= 1 =>
    /\ selB = selA
    /\ Len(LOOKS_7) > 0 =>
         selA.look = Returned(LOOKS_7[((selCycle - 1) % Len(LOOKS_7)) + 1])
    /\ Len(OVERLAY_TINT_PALETTE) > 0 =>
         selA.tint = Returned(OVERLAY_TINT_PALETTE[((selCycle - 1) % Len(OVERLAY_TINT_PALETTE)) + 1])
    /\ Len(SPEED_ZOOM_PRESETS) > 0 =>
         selA.preset = Returned(SPEED_ZOOM_PRESETS[((selCycle - 1) % Len(SPEED_ZOOM_PRESETS)) + 1])
    /\ Len(intro_voices) > 0 =>
         selA.intro = Returned(intro_voices[((selCycle - 1) % Len(intro_voices)) + 1])

\* cycle 8 wraps to the first entry of the 7-entry palettes, as cycle 1 does
C6_Witness ==
  /\ selCycle = 8 /\ selK = -1
  /\ Len(LOOKS_7) = 7 /\ Len(OVERLAY_TINT_PALETTE) = 7 /\ Len(SPEED_ZOOM_PRESETS) = 7
  /\ selA.look.v.name = "clean" /\ selA.tint.v = "#00C2FF" /\ selA.preset.v.name = "A"
  /\ selB = selA

\* C7: selecting from a palette of length zero returns the fixed
\* 'no selection' fallback and never raises, for looks, tints, presets and
\* intro narration tracks alike.
C7_EmptyPaletteFallsBack ==
  selCycle >= 1 =>
    /\ Len(LOOKS_7) = 0 => selA.look = Returned(NoLook)
    /\ Len(OVERLAY_TINT_PALETTE) = 0 => selA.tint = Returned("None")
    /\ Len(SPEED_ZOOM_PRESETS) = 0 => selA.preset = Returned(NoPreset)
    /\ Len(intro_voices) = 0 => selA.intro = Returned(INTRO_AUDIO_FALLBACK)

(***************************************************************************)
(* Properties of load_state                                                *)
(***************************************************************************)
\* the contents the claim calls malformed
Malformed(content) ==
  \/ content.k \in {"garbage", "nonobject"}
  \/ /\ content.k = "object"
     /\ \/ content.cycle.t \notin {"missing", "int"}
        \/ content.done.t \notin {"missing", "list"}

\* C8: load_state returns the default {cycle 1, done empty} for a missing
\* file and for every malformed content (not JSON, not an object, cycle not
\* an integer, done not a list), and always a cycle >= 1.
C8_MalformedGivesDefault ==
  loaded.called =>
    /\ loaded.ret.cycle >= 1
    /\ (loaded.src = Absent \/ Malformed(loaded.src)) => loaded.ret = DefaultState

(***************************************************************************)
(* Properties of process_one_folder                                        *)
(***************************************************************************)
Kinds(rendition) == [i \in 1..Len(rendition) |-> rendition[i].kind]
Clips(rendition) == [i \in 1..Len(rendition) |-> rendition[i].clip]

\* the body segments of a rendition, in order
Bodies(rendition) == SelectSeq(rendition, LAMBDA seg : seg.kind = "body")

\* intro, one body per selected clip in order, the call to action if it
\* was produced, the outro
FullOrder(rendition, vids, cta) ==
  /\ Len(rendition) = Len(vids) + 2 + (IF cta THEN 1 ELSE 0)
  /\ rendition[1].kind = "intro" /\ rendition[1].clip = vids[1]
  /\ \A i \in 1..Len(vids) :
       rendition[i + 1].kind = "body" /\ rendition[i + 1].clip = vids[i]
  /\ cta => rendition[Len(rendition) - 1].kind = "cta"
  /\ rendition[Len(rendition)].kind = "outro"

\* the same without the intro
OrderWithoutIntro(rendition, vids, cta) ==
  /\ Len(rendition) = Len(vids) + 1 + (IF cta THEN 1 ELSE 0)
  /\ \A i \in 1..Len(vids) :
       rendition[i].kind = "body" /\ rendition[i].clip = vids[i]
  /\ cta => rendition[Len(rendition) - 1].kind = "cta"
  /\ rendition[Len(rendition)].kind = "outro"

\* C10 as stated: for every successfully processed folder each of the two
\* renditions is the intro, then one body segment per selected clip in the
\* shuffled order, then the call to action if produced, then the outro.
C10_BothRenditionsFullOrder ==
  fOut.result = "True" =>
    /\ FullOrder(fOut.tiktok, fOut.vids, fOut.cta)
    /\ FullOrder(fOut.production, fOut.vids, fOut.cta)

\* C10 as amended: the social rendition is the intro, the bodies in the
\* shuffled clip order, the call to action if produced and the outro; the
\* production rendition is the same sequence without the intro, made from
\* the same clips in the same order.
C10_RenditionOrder ==
  fOut.result = "True" =>
    /\ FullOrder(fOut.tiktok, fOut.vids, fOut.cta)
    /\ OrderWithoutIntro(fOut.production, fOut.vids, fOut.cta)
    /\ Clips(Bodies(fOut.tiktok)) = Clips(Bodies(fOut.production))
    /\ fOut.cta => fOut.tiktok[Len(fOut.tiktok) - 1] = fOut.production[Len(fOut.production) - 1]

\* four clips capped to three, not in name order, call to action produced
C10_Witness ==
  /\ fOut.result = "True" /\ Len(fIn.clips) = 4 /\ fOut.vids = <<4, 1, 3>>
  /\ fOut.cta
  /\ Kinds(fOut.tiktok) = <<"intro", "body", "body", "body", "cta", "outro">>
  /\ Kinds(fOut.production) = <<"body", "body", "body", "cta", "outro">>

\* C11 as stated: two executions of process_one_folder on the same folder
\* contents with the same seed select the same clips in the same order, and
\* so the same first clip for the intro.
C11_SameSeedSameOrder ==
  (fOut.result = "True" /\ fIn.earlier # <<>> /\ fIn.seed = BASE_SEED) =>
    /\ fOut.vids = fIn.earlier
    /\ fOut.tiktok[1].clip = fIn.earlier[1]

HasCta(rendition) == \E i \in 1..Len(rendition) : rendition[i].kind = "cta"

\* the folder got as far as the call to action: nothing raised, or the
\* render of the static segment or a later engine call did
CtaReached ==
  \/ fOut.result = "True"
  \/ fOut.result = "raised" /\ StepNo(fOut.step) >= StepNo("static")

\* C12 as stated: the call to action is in the renditions only if its
\* narration file exists and the last frame was extracted, and any failure
\* while producing it (narration missing, frame not extracted, render of the
\* static segment failing) is non-fatal: the segment is omitted and the
\* folder is assembled and reported as processed.
C12_CtaFailureNonFatal ==
  /\ fOut.cta => fIn.cta_audio /\ fOut.frame
  /\ (CtaReached /\ fOut.step \in {"none", "static"}) =>
       /\ fOut.result = "True"
       /\ FullOrder(fOut.tiktok, fOut.vids, fOut.cta)
       /\ fOut.step = "static" => ~fOut.cta

\* C12 as amended: in a successfully processed folder the call to action is
\* in both renditions exactly when its narration file exists and the last
\* frame was extracted; a missing narration file or a failed extraction
\* omits the segment and leaves the folder successful; a failing render of
\* the static segment is an engine failure of the folder: nothing is
\* assembled and the folder is not reported as processed.
C12_CtaBestEffort ==
  /\ fOut.result = "True" =>
       /\ fOut.cta <=> (fIn.cta_audio /\ fOut.frame)
       /\ HasCta(fOut.tiktok) <=> fOut.cta
       /\ HasCta(fOut.production) <=> fOut.cta
       /\ FullOrder(fOut.tiktok, fOut.vids, fOut.cta)
  /\ (fOut.result # "none" /\ fIn.clips # <<>> /\ fOut.step = "none") => fOut.result = "True"
  /\ fOut.step = "static" =>
       /\ fIn.cta_audio /\ fOut.frame
       /\ fOut.result = "raised" /\ fOut.tiktok = <<>> /\ fOut.production = <<>>

\* the narration file exists, the last frame could not be extracted: the
\* folder is processed without a call to action
C12_Witness ==
  /\ fOut.result = "True" /\ fIn.cta_audio /\ ~fOut.frame /\ ~fOut.cta
  /\ Kinds(fOut.tiktok) = <<"intro", "body", "body", "outro">>
  /\ Kinds(fOut.production) = <<"body", "body", "outro">>

(***************************************************************************)
(* Properties of the segment renderers                                     *)
(***************************************************************************)
\* positions at which a label is written by a chain, read by a chain, mapped
DefinedAt(cmd, l) ==
  {<<i, j>> \in (1..Len(cmd.fc)) \X (1..2) :
     j <= Len(cmd.fc[i].outs) /\ cmd.fc[i].outs[j] = l}

ReadAt(cmd, l) ==
  {<<i, j>> \in (1..Len(cmd.fc)) \X (1..2) :
     j <= Len(cmd.fc[i].ins) /\ cmd.fc[i].ins[j] = l}

MappedAt(cmd, l) == {k \in 1..Len(cmd.maps) : cmd.maps[k] = l}

LabelsOf(cmd) ==
  UNION {Range(cmd.fc[i].ins) \cup Range(cmd.fc[i].outs) : i \in 1..Len(cmd.fc)}
    \cup Range(cmd.maps)

\* the input pin a label's stream is read from
RECURSIVE SourcePin(_, _)
SourcePin(cmd, l) ==
  IF l.pin THEN l ELSE SourcePin(cmd, cmd.fc[Defining(cmd, l)].ins[1])

WellFormed(cmd) ==
  /\ \A i \in 1..Len(cmd.fc) : Len(cmd.fc[i].ins) \in 1..2 /\ Len(cmd.fc[i].outs) \in 1..2
  \* a name is written exactly once and consumed exactly once
  /\ \A l \in LabelsOf(cmd) : ~l.pin =>
        /\ Cardinality(DefinedAt(cmd, l)) = 1
        /\ Cardinality(ReadAt(cmd, l)) + Cardinality(MappedAt(cmd, l)) = 1
  \* an input pin names an input of the command that carries such a stream
  /\ \A l \in LabelsOf(cmd) : l.pin =>
        /\ l.n + 1 \in 1..Len(cmd.inputs)
        /\ l.name \in cmd.inputs[l.n + 1].streams
        /\ DefinedAt(cmd, l) = {}
        /\ Cardinality(ReadAt(cmd, l)) = 1 /\ MappedAt(cmd, l) = {}
  \* one graph without a cycle: a chain reads pins and names written before it
  /\ \A i \in 1..Len(cmd.fc) : \A l \in Range(cmd.fc[i].ins) :
        ~l.pin => \E k \in 1..(i - 1) : l \in Range(cmd.fc[k].outs)
  \* every input added is read
  /\ \A n \in 1..Len(cmd.inputs) : \E l \in LabelsOf(cmd) : l.pin /\ l.n + 1 = n
  \* one video and one audio stream are mapped
  /\ Len(cmd.maps) = 2
  /\ SourcePin(cmd, cmd.maps[1]).name = "v"
  /\ SourcePin(cmd, cmd.maps[2]).name = "a"

\* C13: for every combination of options (audio or none, folder overlay or
\* none, tint absent, full or partial, banner or none, speed 1 or not) the
\* filter graph of a body, intro or static segment is one well-formed graph:
\* every label is written exactly once and consumed exactly once, every
\* input index referenced is an input of the command, one video and one
\* audio pin are mapped, and the audio of a clip without an audio stream
\* comes from the synthesized silent source.
C13_GraphWellFormed ==
  rOut.done =>
    /\ WellFormed(rOut.cmd)
    /\ (rIn.fn \in {"body", "outro"} /\ ~rIn.need_audio) =>
         LET src == SourcePin(rOut.cmd, rOut.cmd.maps[2])
         IN  rOut.cmd.inputs[src.n + 1].src = "anullsrc"
    /\ (rIn.fn \in {"body", "outro"} /\ rIn.need_audio) =>
         SourcePin(rOut.cmd, rOut.cmd.maps[2]) = Pin(0, "a")

\* a body without audio, with the overlay tinted at partial strength, the
\* banner and a speed other than 1: four inputs and nine chains
C13_Witness ==
  /\ rOut.done /\ rIn.fn = "body" /\ ~rIn.need_audio /\ rIn.folder_overlay_png
  /\ rIn.tint_rgb /\ rIn.strength = OVERLAY_TINT_STRENGTH /\ rIn.banner_png
  /\ rIn.preset.speed = 103
  /\ Len(rOut.cmd.inputs) = 4 /\ Len(rOut.cmd.fc) = 9
  /\ rOut.cmd.maps = <<Label("v_final_banner"), Label("a_out")>>
  /\ Label("v2") \in LabelsOf(rOut.cmd) /\ Pin(3, "v") \in LabelsOf(rOut.cmd)

\* C14 as stated: the intro segment is as long as the selected narration
\* whenever ffprobe reports the narration's length (4.2 s of narration give
\* an intro of 4.2 s for every speed/zoom preset), and it is the 3 second
\* fallback long only when the length is not reported.  Stated for a first
\* clip that is long enough to cover the narration and the fallback.
C14_IntroDurationIsNarration ==
  (rOut.done /\ rIn.fn = "intro" /\ rIn.clip_ms = 10000 /\ rIn.narration.ms = 4200) =>
    /\ rIn.narration.reported => rOut.out_ms = rIn.narration.ms
    /\ rOut.out_ms = 3000 => ~rIn.narration.reported

\* C15 as stated: the body segment of a clip without an audio stream keeps
\* the clip's whole speed-adjusted video duration and its silent audio track
\* is as long as the video; the silence never shortens the video.  Stated
\* for clips of two seconds and more.
C15_SilentBodyKeepsDuration ==
  (rOut.done /\ rIn.fn = "body" /\ ~rIn.need_audio /\ rIn.clip_ms >= 2000) =>
    /\ rOut.video_ms = (rIn.clip_ms * 100) \div rIn.preset.speed
    /\ rOut.out_ms = rOut.video_ms
    /\ rOut.audio_ms = rOut.video_ms

(***************************************************************************)
(* Properties of the persisted state file                                  *)
(***************************************************************************)
\* a step of main that returns from process_one_folder for the last picked
\* folder and reaches the end of main
LastFolderHandled ==
  /\ pc = "processing" /\ idx = Len(picked)
  /\ pc' = "idle" /\ lastExit' = "saved"

\* a step with which a run ends before that: die(), or an exception
RunEndsEarly ==
  \/ pc = "idle" /\ runs' = runs + 1 /\ pc' = "idle"
  \/ pc = "processing" /\ pc' = "idle" /\ lastExit' # "saved"

\* C16: the state file is written once per run, after the last picked
\* folder has been handled, with the state of that moment; the file changes
\* at no other step, so a run that ends earlier (outro or intro narration
\* missing, no eligible folder, an engine failure) leaves the file as it was
\* before the run and the folders it completed are not recorded as done.
C16_StateWrittenAtRunEnd ==
  [][ /\ file' # file => LastFolderHandled
      /\ LastFolderHandled =>
           file' = StateToSave(cycle, done_names', eligible_names)
      /\ (pc = "processing" /\ idx < Len(picked) /\ pc' = "processing") => file' = file
      /\ RunEndsEarly => file' = file ]_vars

\* a run picked two folders, completed the first and was ended by an engine
\* failure in the second: the file is still absent
C16_Witness ==
  /\ pc = "idle" /\ lastExit = "raised" /\ runs = 1
  /\ Len(picked) = 2 /\ Len(processed_names) = 1 /\ idx = 2
  /\ file = Absent
====
